---- MODULE Spec2Model ----
(***************************************************************************)
(* Snapshot lifecycle and isolation protocol of vart (src/snapshot.rs).    *)
(*                                                                         *)
(* The trie nodes (crate::art::Node), the store (crate::art::Tree) and the *)
(* cursor (crate::iter::IterationPointer) live outside snapshot.rs; they   *)
(* are modelled from their contracts: a root is an immutable value mapping *)
(* every key to the set of (value, commit timestamp) versions written to   *)
(* it, and the timestamp of a root is the largest commit timestamp in it.  *)
(*                                                                         *)
(* u64 values are kept modulo 2^64 and written with the representative of  *)
(* least absolute value: 2^64 - 1 is written -1.  Addition and subtraction *)
(* of 1 are then the ordinary ones, and the unsigned test "x > 0" is       *)
(* "x # 0".                                                                *)
(***************************************************************************)
EXTENDS Integers, Sequences, FiniteSets, TLC

\* Inputs
Keys == {"key_1", "key_2"}
\* The store's writes carry TreeValue, the snapshots' writes one of Values
TreeValue == 1
Values == {2, 3}
\* Reader ids a caller may pass to close_reader
ReaderIds == {0, 1}

\* Bounds: the snapshots created, and the calls that change state, in a run
MaxSnapshots == 2
MaxCalls == 5
\* Bound: the readers issued before overlapping callers start
MaxPriorReaders == 2
\* The overlapping callers
Threads == {1, 2}

VARIABLES
    tree,       \* the store: [root]
    snapshots,  \* sequence of Snapshot structs, snapshot id i at index i + 1
    pointers,   \* sequence of issued IterationPointers, with their history
    hist,       \* per snapshot: history of the calls made on it
    last,       \* the most recent call and its result
    conc        \* the calls in progress, when callers overlap

vars == <<tree, snapshots, pointers, hist, last, conc>>

----------------------------------------------------------------------------
\* Results

Ok(out) == [ok |-> TRUE, err |-> "", out |-> out]
Err(e) == [ok |-> FALSE, err |-> e, out |-> <<>>]

SnapshotAlreadyClosed == Err("SnapshotAlreadyClosed")
SnapshotReadersNotClosed == Err("SnapshotReadersNotClosed")
KeyNotFound == Err("KeyNotFound")
TrieInsertFailed == Err("Other")

----------------------------------------------------------------------------
\* Trie core (crate::art::Node)

EmptyRoot == [k \in Keys |-> {}]

Versions(root) == UNION {root[k] : k \in Keys}

KeysOf(root) == {k \in Keys : root[k] # {}}

SetMax(S) == CHOOSE x \in S : \A y \in S : y <= x

\* Node::ts: the timestamp recorded on a node
node_ts(root) ==
    IF Versions(root) = {} THEN 0 ELSE SetMax({v[2] : v \in Versions(root)})

\* Node::insert_recurse: a new root, nothing reachable from root changes
insert_recurse(root, key, value, commit_ts) ==
    [root EXCEPT ![key] = @ \cup {<<value, commit_ts>>}]

\* Node::get_recurse: the possible results of a lookup bounded by ts.  The
\* versions of a key are ordered by commit timestamp alone, so two versions
\* with the same commit timestamp are both possible results.
get_recurse(root, key, ts) ==
    LET vis == {v \in root[key] : v[2] <= ts}
        top == SetMax({v[2] : v \in vis})
    IN  IF vis = {} THEN {KeyNotFound}
        ELSE {Ok(v) : v \in {w \in vis : w[2] = top}}

\* IterationPointer::new
IterationPointer_new(root, reader_id) == [id |-> reader_id, root |-> root]

\* IterationPointer::iter, reduced to the set of keys it yields
iter_keys(ptr) == KeysOf(ptr.root)

----------------------------------------------------------------------------
\* Snapshot (src/snapshot.rs)

\* Snapshot::new
new(id, root, ts) ==
    [id |-> id, ts |-> ts, root |-> root, readers |-> {},
     max_active_readers |-> 0, closed |-> FALSE]

\* is_closed that never reports the snapshot closed
is_closed_never(self) == Ok(<<>>)

\* Snapshot::is_closed
is_closed(self) == IF self.closed THEN SnapshotAlreadyClosed ELSE Ok(<<>>)

\* insert with the root rebound before the trie's result is looked at
insert_partial(self, key, value, trie_ok) ==
    IF ~is_closed(self).ok THEN [self |-> self, res |-> is_closed(self)]
    ELSE [self |-> [self EXCEPT !.root =
                        insert_recurse(self.root, key, value, self.ts)],
          res |-> IF trie_ok THEN Ok(<<>>) ELSE TrieInsertFailed]

\* Snapshot::insert.  trie_ok is the outcome of Node::insert_recurse.
insert(self, key, value, trie_ok) ==
    IF ~is_closed(self).ok THEN [self |-> self, res |-> is_closed(self)]
    ELSE IF ~trie_ok THEN [self |-> self, res |-> TrieInsertFailed]
    ELSE [self |-> [self EXCEPT !.root =
                        insert_recurse(self.root, key, value, self.ts)],
          res |-> Ok(<<>>)]

\* get looking up the store's current root, not the root captured at the fork
get_live(self, key, ts) ==
    IF ~is_closed(self).ok THEN {is_closed(self)}
    ELSE get_recurse(tree.root, key, ts)

\* get without the closed check
get_unchecked(self, key, ts) == get_recurse(self.root, key, ts)

\* Snapshot::get: the possible results
get(self, key, ts) ==
    IF ~is_closed(self).ok THEN {is_closed(self)}
    ELSE get_recurse(self.root, key, ts)

\* Snapshot::ts
ts(self) == node_ts(self.root)

\* close that reopens a closed snapshot
close_toggle(self) ==
    IF self.closed
    THEN [self |-> [self EXCEPT !.closed = FALSE], res |-> Ok(<<>>)]
    ELSE IF self.max_active_readers # 0
         THEN [self |-> self, res |-> SnapshotReadersNotClosed]
    ELSE [self |-> [self EXCEPT !.closed = TRUE], res |-> Ok(<<>>)]

\* close without the active-reader check
close_unchecked(self) ==
    IF ~is_closed(self).ok THEN [self |-> self, res |-> is_closed(self)]
    ELSE [self |-> [self EXCEPT !.closed = TRUE], res |-> Ok(<<>>)]

\* Snapshot::close
close(self) ==
    IF ~is_closed(self).ok THEN [self |-> self, res |-> is_closed(self)]
    ELSE IF self.max_active_readers # 0
         THEN [self |-> self, res |-> SnapshotReadersNotClosed]
    ELSE [self |-> [self EXCEPT !.closed = TRUE], res |-> Ok(<<>>)]

\* Snapshot::new_reader.  On Ok, ptr is the IterationPointer returned.
new_reader(self) ==
    IF ~is_closed(self).ok
    THEN [self |-> self, res |-> is_closed(self),
          ptr |-> IterationPointer_new(EmptyRoot, 0)]
    ELSE LET reader_id == self.max_active_readers
         IN  [self |-> [self EXCEPT
                    !.max_active_readers = reader_id + 1,
                    !.readers = @ \cup {reader_id}],
              res |-> Ok(<<reader_id>>),
              ptr |-> IterationPointer_new(self.root, reader_id)]

\* Snapshot::active_readers
active_readers(self) ==
    IF ~is_closed(self).ok THEN is_closed(self)
    ELSE Ok(<<self.max_active_readers>>)

\* close_reader that decrements only for an id in the active set
close_reader_checked(self, reader_id) ==
    IF ~is_closed(self).ok THEN [self |-> self, res |-> is_closed(self)]
    ELSE IF reader_id \notin self.readers THEN [self |-> self, res |-> Ok(<<>>)]
    ELSE [self |-> [self EXCEPT
                !.readers = @ \ {reader_id},
                !.max_active_readers = @ - 1],
          res |-> Ok(<<>>)]

\* close_reader with a decrement that stops at zero
close_reader_saturating(self, reader_id) ==
    IF ~is_closed(self).ok THEN [self |-> self, res |-> is_closed(self)]
    ELSE [self |-> [self EXCEPT
                !.readers = @ \ {reader_id},
                !.max_active_readers = IF @ = 0 THEN 0 ELSE @ - 1],
          res |-> Ok(<<>>)]

\* Snapshot::close_reader
close_reader(self, reader_id) ==
    IF ~is_closed(self).ok THEN [self |-> self, res |-> is_closed(self)]
    ELSE [self |-> [self EXCEPT
                !.readers = @ \ {reader_id},
                !.max_active_readers = @ - 1],
          res |-> Ok(<<>>)]

----------------------------------------------------------------------------
\* Store (crate::art::Tree)

\* Tree::ts
tree_ts(t) == node_ts(t.root)

\* Tree::insert(key, value, 0): the commit timestamp is the next one
tree_insert(t, key, value) ==
    [t EXCEPT !.root = insert_recurse(t.root, key, value, tree_ts(t) + 1)]

\* Tree::create_snapshot: the snapshot writes at the timestamp after the
\* store's (tests::test_snapshot_creation, tests::test_snapshot_isolation)
create_snapshot(t, id) == new(id, t.root, tree_ts(t) + 1)

----------------------------------------------------------------------------
\* State machine

SnapIds == 1..Len(snapshots)

\* Every timestamp a root of a run can carry, and one more
AllTs == 0..(MaxCalls + 1)

\* Timestamps a caller passes to get
GetTs == {0, 1, 2, 3}

RECURSIVE SumOver(_, _)
SumOver(f, n) == IF n = 0 THEN 0 ELSE f[n] + SumOver(f, n - 1)

NInserts == SumOver([i \in SnapIds |-> Len(hist[i].commits)], Len(hist))
NCloseReader == SumOver([i \in SnapIds |-> hist[i].closes], Len(hist))
NClosed == Cardinality({i \in SnapIds : snapshots[i].closed})

\* The calls made so far that changed the state
NCalls ==
    tree_ts(tree) + Len(snapshots) + NInserts + Len(pointers) + NCloseReader
        + NClosed

Call(op, snap, key, value, t, res, keys) ==
    [op |-> op, snap |-> snap, key |-> key, value |-> value, ts |-> t,
     res |-> res, keys |-> keys]

NoKey == "none"

\* No call in progress
ConcIdle ==
    [start |-> new(0, EmptyRoot, 0),
     th |-> [t \in Threads |->
                [pc |-> "idle", op |-> "none", arg |-> 0, ret |-> 0,
                 seen |-> {}]]]

Init ==
    /\ tree = [root |-> EmptyRoot]
    /\ snapshots = <<>>
    /\ pointers = <<>>
    /\ hist = <<>>
    /\ last = Call("init", 0, NoKey, 0, 0, Ok(<<>>), {})
    /\ conc = ConcIdle

TreeInsert(key, value) ==
    /\ NCalls < MaxCalls
    /\ tree' = tree_insert(tree, key, value)
    /\ UNCHANGED conc
    /\ last' = Call("tree_insert", 0, key, value, 0, Ok(<<>>), {})
    /\ UNCHANGED <<snapshots, pointers, hist>>

\* The Snapshot holds a root, so the store has one when it is created.
CreateSnapshot ==
    /\ NCalls < MaxCalls
    /\ Len(snapshots) < MaxSnapshots
    /\ KeysOf(tree.root) # {}
    /\ LET s == create_snapshot(tree, Len(snapshots))
       IN  /\ snapshots' = Append(snapshots, s)
           /\ hist' = Append(hist,
                  [start_ts |-> ts(s), base |-> tree.root, commits |-> <<>>,
                   written |-> [k \in Keys |-> 0], issued |-> <<>>,
                   closes |-> 0, strays |-> 0])
           /\ UNCHANGED conc
           /\ last' = Call("create_snapshot", Len(snapshots) + 1, NoKey, 0, 0,
                           Ok(<<s.id>>), {})
    /\ UNCHANGED <<tree, pointers>>

\* Insert writing into the shared nodes in place: every holder of the old
\* root, sibling snapshot or reader, sees the write
InsertInPlace(i, key, value, trie_ok) ==
    LET r == insert(snapshots[i], key, value, trie_ok)
        old == snapshots[i].root
    IN  /\ r.res.ok => NCalls < MaxCalls
        /\ snapshots' = [h \in SnapIds |->
               IF h = i THEN r.self
               ELSE IF r.res.ok /\ snapshots[h].root = old
                    THEN [snapshots[h] EXCEPT !.root = r.self.root]
                    ELSE snapshots[h]]
        /\ pointers' = [j \in 1..Len(pointers) |->
               IF r.res.ok /\ pointers[j].ptr.root = old
               THEN [pointers[j] EXCEPT !.ptr.root = r.self.root]
               ELSE pointers[j]]
        /\ hist' = IF r.res.ok
                   THEN [hist EXCEPT
                           ![i].commits = Append(@, snapshots[i].ts),
                           ![i].written[key] = value]
                   ELSE hist
        /\ UNCHANGED conc
        /\ last' = Call("insert", i, key, value, 0, r.res, {})
        /\ UNCHANGED tree

Insert(i, key, value, trie_ok) ==
    LET r == insert(snapshots[i], key, value, trie_ok)
    IN  /\ r.res.ok => NCalls < MaxCalls
        /\ snapshots' = [snapshots EXCEPT ![i] = r.self]
        /\ hist' = IF r.res.ok
                   THEN [hist EXCEPT
                           ![i].commits = Append(@, snapshots[i].ts),
                           ![i].written[key] = value]
                   ELSE hist
        /\ UNCHANGED conc
        /\ last' = Call("insert", i, key, value, 0, r.res, {})
        /\ UNCHANGED <<tree, pointers>>

Get(i, key, t) ==
    /\ \E r \in get(snapshots[i], key, t) :
          last' = Call("get", i, key, 0, t, r, {})
    /\ UNCHANGED conc
    /\ UNCHANGED <<tree, snapshots, pointers, hist>>

Ts(i) ==
    /\ UNCHANGED conc
    /\ last' = Call("ts", i, NoKey, 0, 0, Ok(<<ts(snapshots[i])>>), {})
    /\ UNCHANGED <<tree, snapshots, pointers, hist>>

Close(i) ==
    LET r == close(snapshots[i])
    IN  /\ r.res.ok => NCalls < MaxCalls
        /\ snapshots' = [snapshots EXCEPT ![i] = r.self]
        /\ UNCHANGED conc
        /\ last' = Call("close", i, NoKey, 0, 0, r.res, {})
        /\ UNCHANGED <<tree, pointers, hist>>

\* The snapshot's keys, from its history: the base keys and its own inserts
HistKeys(i) == KeysOf(hist[i].base) \cup {k \in Keys : hist[i].written[k] # 0}

NewReader(i) ==
    LET r == new_reader(snapshots[i])
    IN  /\ r.res.ok => NCalls < MaxCalls
        /\ snapshots' = [snapshots EXCEPT ![i] = r.self]
        /\ pointers' = IF r.res.ok
                       THEN Append(pointers,
                                [snap |-> i, ptr |-> r.ptr,
                                 keys |-> HistKeys(i), open |-> TRUE])
                       ELSE pointers
        /\ hist' = IF r.res.ok
                   THEN [hist EXCEPT ![i].issued = Append(@, r.ptr.id)]
                   ELSE hist
        /\ UNCHANGED conc
        /\ last' = Call("new_reader", i, NoKey, 0, 0, r.res, {})
        /\ UNCHANGED tree

ActiveReaders(i) ==
    /\ UNCHANGED conc
    /\ last' = Call("active_readers", i, NoKey, 0, 0,
                    active_readers(snapshots[i]), {})
    /\ UNCHANGED <<tree, snapshots, pointers, hist>>

\* The open pointers of snapshot i that carry reader_id
OpenPointers(i, reader_id) ==
    {j \in 1..Len(pointers) :
        /\ pointers[j].snap = i
        /\ pointers[j].open
        /\ pointers[j].ptr.id = reader_id}

CloseReader(i, reader_id) ==
    LET r == close_reader(snapshots[i], reader_id)
        named == OpenPointers(i, reader_id)
    IN  /\ r.res.ok => NCalls < MaxCalls
        /\ snapshots' = [snapshots EXCEPT ![i] = r.self]
        /\ pointers' = IF r.res.ok /\ named # {}
                       THEN [pointers EXCEPT
                               ![CHOOSE j \in named : \A h \in named : j <= h]
                                   .open = FALSE]
                       ELSE pointers
        /\ hist' = IF r.res.ok
                   THEN [hist EXCEPT
                           ![i].closes = @ + 1,
                           ![i].strays = IF named = {} THEN @ + 1 ELSE @]
                   ELSE hist
        /\ UNCHANGED conc
        /\ last' = Call("close_reader", i, NoKey, 0, reader_id, r.res, {})
        /\ UNCHANGED tree

\* IterationPointer::iter on an issued pointer
Iter(j) ==
    /\ UNCHANGED conc
    /\ last' = Call("iter", pointers[j].snap, NoKey, 0, pointers[j].ptr.id,
                    Ok(<<>>), iter_keys(pointers[j].ptr))
    /\ UNCHANGED <<tree, snapshots, pointers, hist>>

Next ==
    \/ \E key \in Keys : TreeInsert(key, TreeValue)
    \/ CreateSnapshot
    \/ \E i \in SnapIds, key \in Keys, value \in Values, trie_ok \in BOOLEAN :
          Insert(i, key, value, trie_ok)
    \/ \E i \in SnapIds, key \in Keys, t \in GetTs : Get(i, key, t)
    \/ \E i \in SnapIds : Ts(i)
    \/ \E i \in SnapIds : Close(i)
    \/ \E i \in SnapIds : NewReader(i)
    \/ \E i \in SnapIds : ActiveReaders(i)
    \/ \E i \in SnapIds, reader_id \in ReaderIds : CloseReader(i, reader_id)
    \/ \E j \in 1..Len(pointers) : Iter(j)

Spec == Init /\ [][Next]_vars

----------------------------------------------------------------------------
\* Overlapping new_reader and close_reader calls on one open snapshot, step
\* by step.  max_active_readers is an AtomicU64: fetch_add and fetch_sub are
\* single steps.  readers is a plain HashSet: an insert or a remove reads the
\* set and writes it back, with nothing to keep another caller out between
\* the two.

InitConc ==
    /\ tree = tree_insert([root |-> EmptyRoot], "key_1", TreeValue)
    /\ snapshots = <<create_snapshot(tree, 0)>>
    /\ pointers = <<>>
    /\ hist = <<[start_ts |-> tree_ts(tree), base |-> tree.root,
                 commits |-> <<>>, written |-> [k \in Keys |-> 0],
                 issued |-> <<>>, closes |-> 0, strays |-> 0]>>
    /\ last = Call("create_snapshot", 1, NoKey, 0, 0, Ok(<<0>>), {})
    /\ conc = ConcIdle

AllIdle == \A t \in Threads : conc.th[t].pc = "idle"
AllDone == \A t \in Threads : conc.th[t].pc = "done"

\* A new_reader call made, whole, before any caller overlaps
PriorNewReader ==
    /\ AllIdle
    /\ snapshots[1].max_active_readers < MaxPriorReaders
    /\ snapshots' = [snapshots EXCEPT ![1] = new_reader(@).self]
    /\ UNCHANGED <<tree, pointers, hist, last, conc>>

\* conc with thread t moved on; the first call to start fixes the start
Started(t, rec) ==
    [conc EXCEPT !.th[t] = rec,
                 !.start = IF AllIdle THEN snapshots[1] ELSE @]

\* new_reader, line 92: self.is_closed()?
CallNewReader(t) ==
    /\ conc.th[t].pc = "idle"
    /\ is_closed(snapshots[1]).ok
    /\ conc' = Started(t, [conc.th[t] EXCEPT
                              !.pc = "fetch_add", !.op = "new_reader"])
    /\ UNCHANGED <<tree, snapshots, pointers, hist, last>>

\* new_reader, line 94: reader_id = max_active_readers.fetch_add(1)
FetchAdd(t) ==
    /\ conc.th[t].pc = "fetch_add"
    /\ snapshots' = [snapshots EXCEPT ![1].max_active_readers = @ + 1]
    /\ conc' = [conc EXCEPT !.th[t].pc = "insert_load",
                            !.th[t].ret = snapshots[1].max_active_readers]
    /\ UNCHANGED <<tree, pointers, hist, last>>

\* new_reader, line 95: readers.insert(reader_id), the read
InsertLoad(t) ==
    /\ conc.th[t].pc = "insert_load"
    /\ conc' = [conc EXCEPT !.th[t].pc = "insert_store",
                            !.th[t].seen = snapshots[1].readers]
    /\ UNCHANGED <<tree, snapshots, pointers, hist, last>>

\* new_reader, line 95: readers.insert(reader_id), the write
InsertStore(t) ==
    /\ conc.th[t].pc = "insert_store"
    /\ snapshots' = [snapshots EXCEPT
                        ![1].readers = conc.th[t].seen \cup {conc.th[t].ret}]
    /\ conc' = [conc EXCEPT !.th[t].pc = "done"]
    /\ UNCHANGED <<tree, pointers, hist, last>>

\* close_reader, line 108: self.is_closed()?
CallCloseReader(t, reader_id) ==
    /\ conc.th[t].pc = "idle"
    /\ is_closed(snapshots[1]).ok
    /\ conc' = Started(t, [conc.th[t] EXCEPT
                              !.pc = "remove_load", !.op = "close_reader",
                              !.arg = reader_id])
    /\ UNCHANGED <<tree, snapshots, pointers, hist, last>>

\* close_reader, line 110: readers.remove(&reader_id), the read
RemoveLoad(t) ==
    /\ conc.th[t].pc = "remove_load"
    /\ conc' = [conc EXCEPT !.th[t].pc = "remove_store",
                            !.th[t].seen = snapshots[1].readers]
    /\ UNCHANGED <<tree, snapshots, pointers, hist, last>>

\* close_reader, line 110: readers.remove(&reader_id), the write
RemoveStore(t) ==
    /\ conc.th[t].pc = "remove_store"
    /\ snapshots' = [snapshots EXCEPT
                        ![1].readers = conc.th[t].seen \ {conc.th[t].arg}]
    /\ conc' = [conc EXCEPT !.th[t].pc = "fetch_sub"]
    /\ UNCHANGED <<tree, pointers, hist, last>>

\* close_reader, line 111: max_active_readers.fetch_sub(1)
FetchSub(t) ==
    /\ conc.th[t].pc = "fetch_sub"
    /\ snapshots' = [snapshots EXCEPT ![1].max_active_readers = @ - 1]
    /\ conc' = [conc EXCEPT !.th[t].pc = "done"]
    /\ UNCHANGED <<tree, pointers, hist, last>>

NextConc ==
    \/ PriorNewReader
    \/ \E t \in Threads : CallNewReader(t)
    \/ \E t \in Threads : FetchAdd(t)
    \/ \E t \in Threads : InsertLoad(t)
    \/ \E t \in Threads : InsertStore(t)
    \/ \E t \in Threads, reader_id \in ReaderIds : CallCloseReader(t, reader_id)
    \/ \E t \in Threads : RemoveLoad(t)
    \/ \E t \in Threads : RemoveStore(t)
    \/ \E t \in Threads : FetchSub(t)

SpecConc == InitConc /\ [][NextConc]_vars

----------------------------------------------------------------------------
\* Properties

PointersOf(i) == {j \in 1..Len(pointers) : pointers[j].snap = i}

\* The methods of Snapshot's public surface
SnapshotOps ==
    {"insert", "get", "ts", "close", "new_reader", "active_readers",
     "close_reader"}

\* C1: a get on an open snapshot, for a key written only through a sibling
\* snapshot (not in the base at the fork, never written through this
\* snapshot), is KeyNotFound at every timestamp.
SiblingIsolation ==
    \A i \in SnapIds, j \in SnapIds, k \in Keys, t \in AllTs :
        ( /\ i # j
          /\ ~snapshots[i].closed
          /\ hist[j].written[k] # 0
          /\ hist[i].written[k] = 0
          /\ k \notin KeysOf(hist[i].base) )
        => get(snapshots[i], k, t) = {KeyNotFound}

\* C1 witness: a get for a key only the sibling wrote has just failed
SiblingIsolationWitness ==
    /\ last.op = "get"
    /\ last.res = KeyNotFound
    /\ last.ts = 3
    /\ \E j \in SnapIds :
          /\ j # last.snap
          /\ hist[j].written[last.key] # 0
          /\ hist[last.snap].written[last.key] = 0
          /\ last.key \notin KeysOf(hist[last.snap].base)

\* C2: every issued IterationPointer yields exactly the keys its snapshot
\* held when the pointer was issued, whatever was called since.
ReaderPinned ==
    \A j \in 1..Len(pointers) : iter_keys(pointers[j].ptr) = pointers[j].keys

\* C2 witness: a pointer has iterated after its snapshot gained a key
ReaderPinnedWitness ==
    /\ last.op = "iter"
    /\ \E j \in PointersOf(last.snap) :
          /\ pointers[j].ptr.id = last.ts
          /\ last.keys = pointers[j].keys
          /\ KeysOf(snapshots[last.snap].root) # pointers[j].keys

\* C3: close on an open snapshot fails with SnapshotReadersNotClosed and
\* changes nothing while the active-reader count is nonzero, succeeds and
\* marks the snapshot closed when it is zero; no step closes a snapshot
\* whose count is nonzero.
CloseNeedsNoReaders ==
    [][\A i \in SnapIds :
          /\ (last'.op = "close" /\ last'.snap = i /\ ~snapshots[i].closed)
             => IF active_readers(snapshots[i]).out[1] # 0
                THEN /\ last'.res = SnapshotReadersNotClosed
                     /\ UNCHANGED <<tree, snapshots, pointers, hist>>
                ELSE /\ last'.res = Ok(<<>>)
                     /\ snapshots'[i].closed
          /\ (~snapshots[i].closed /\ snapshots'[i].closed)
             => snapshots[i].max_active_readers = 0
      ]_vars

\* C3 witness: a close has succeeded on a snapshot that had issued a reader
CloseNeedsNoReadersWitness ==
    /\ last.op = "close"
    /\ last.res.ok
    /\ hist[last.snap].issued # <<>>
    /\ snapshots[last.snap].closed

\* C4 as stated: on a closed snapshot every method, ts included, reports
\* SnapshotAlreadyClosed.
ClosedRejectsAll ==
    [][\A i \in SnapIds :
          (snapshots[i].closed /\ last'.snap = i /\ last'.op \in SnapshotOps)
          => last'.res = SnapshotAlreadyClosed
      ]_vars

\* C4 amended: on a closed snapshot insert, get, close, new_reader,
\* active_readers and close_reader report SnapshotAlreadyClosed and change
\* nothing; ts reports no error and returns the root's timestamp.
ClosedRejectsAllButTs ==
    [][\A i \in SnapIds :
          (snapshots[i].closed /\ last'.snap = i /\ last'.op \in SnapshotOps)
          => /\ UNCHANGED <<tree, snapshots, pointers, hist>>
             /\ IF last'.op = "ts"
                THEN last'.res = Ok(<<node_ts(snapshots[i].root)>>)
                ELSE last'.res = SnapshotAlreadyClosed
      ]_vars

\* C4 witness: a get has been rejected by a closed snapshot
ClosedRejectsWitness ==
    /\ last.op = "get"
    /\ snapshots[last.snap].closed
    /\ last.res = SnapshotAlreadyClosed

\* C5 as stated: ts() is the snapshot's starting timestamp plus the number
\* of its successful inserts.
TsCountsInserts ==
    \A i \in SnapIds :
        ts(snapshots[i]) = hist[i].start_ts + Len(hist[i].commits)

\* C6 as stated, for callers whose close_reader calls each named an open
\* reader: the ids new_reader issued start at 0 and strictly increase, so
\* none is issued twice.
ReaderIdsNeverReused ==
    \A i \in SnapIds :
        hist[i].strays = 0 =>
            LET ids == hist[i].issued
            IN  /\ ids # <<>> => ids[1] = 0
                /\ \A a \in 1..Len(ids), b \in 1..Len(ids) :
                      a < b => ids[a] < ids[b]

\* C7 as stated: on an open snapshot active_readers() is the number of
\* readers issued minus the number of those that have been closed.
ActiveIsIssuedMinusClosed ==
    \A i \in SnapIds :
        ~snapshots[i].closed =>
            active_readers(snapshots[i]) =
                Ok(<<Cardinality(PointersOf(i))
                     - Cardinality({j \in PointersOf(i) : ~pointers[j].open})>>)

\* C8 as stated: on an open snapshot a get at ts() for a key the snapshot
\* wrote returns the last value written, with a commit timestamp <= ts().
ReadYourWrites ==
    \A i \in SnapIds, k \in Keys :
        (~snapshots[i].closed /\ hist[i].written[k] # 0) =>
            \A r \in get(snapshots[i], k, ts(snapshots[i])) :
                /\ r.ok
                /\ r.out[1] = hist[i].written[k]
                /\ r.out[2] <= ts(snapshots[i])

\* C9 as stated: the commit timestamps a snapshot's successful inserts hand
\* to insert_recurse strictly increase.
CommitTsIncrease ==
    \A i \in SnapIds :
        \A a \in 1..Len(hist[i].commits), b \in 1..Len(hist[i].commits) :
            a < b => hist[i].commits[a] < hist[i].commits[b]

\* C10: an insert that returns an error leaves the snapshot, and everything
\* else, as it was; one that returns Ok rebinds the root, in that one step,
\* to the root insert_recurse built from the old one.
InsertAllOrNothing ==
    [][\A i \in SnapIds :
          (last'.op = "insert" /\ last'.snap = i)
          => IF last'.res.ok
             THEN snapshots'[i].root =
                      insert_recurse(snapshots[i].root, last'.key,
                                     last'.value, snapshots[i].ts)
             ELSE /\ last'.res \in {SnapshotAlreadyClosed, TrieInsertFailed}
                  /\ UNCHANGED <<tree, snapshots, pointers>>
      ]_vars

\* C10 witness: an insert has failed in the trie on a snapshot that holds
\* writes of its own and an open reader
InsertAllOrNothingWitness ==
    /\ last.op = "insert"
    /\ last.res = TrieInsertFailed
    /\ hist[last.snap].commits # <<>>
    /\ snapshots[last.snap].max_active_readers # 0

\* C11: a snapshot whose closed flag is true keeps it true in every step.
CloseIrreversible ==
    [][\A i \in SnapIds : snapshots[i].closed => snapshots'[i].closed]_vars

\* C11 witness: a second close has been attempted on a closed snapshot
CloseIrreversibleWitness ==
    /\ last.op = "close"
    /\ last.res = SnapshotAlreadyClosed
    /\ snapshots[last.snap].closed

InsertFrame(i) ==
    /\ tree' = tree
    /\ tree_ts(tree') = tree_ts(tree)
    /\ \A h \in SnapIds \ {i} : snapshots'[h] = snapshots[h]
    /\ pointers' = pointers

\* C13 as stated: a successful insert through a snapshot leaves the store's
\* root and ts(), every other snapshot and every issued pointer unchanged,
\* while the snapshot's own ts() advances.
InsertSeenByNoOther ==
    [][\A i \in SnapIds :
          (last'.op = "insert" /\ last'.snap = i /\ last'.res.ok)
          => /\ InsertFrame(i)
             /\ ts(snapshots'[i]) > ts(snapshots[i])
      ]_vars

\* C15: close_reader on an open snapshot returns Ok and decrements the
\* counter whether or not the id is active; from 0 the counter wraps to
\* 2^64 - 1 (written -1), and then active_readers() is nonzero and close()
\* fails with SnapshotReadersNotClosed.
CloseReaderUnvalidated ==
    [][\A i \in SnapIds :
          (last'.op = "close_reader" /\ last'.snap = i /\ ~snapshots[i].closed)
          => /\ last'.res = Ok(<<>>)
             /\ snapshots'[i].max_active_readers
                    = snapshots[i].max_active_readers - 1
             /\ snapshots[i].max_active_readers = 0
                => /\ active_readers(snapshots'[i]) = Ok(<<0 - 1>>)
                   /\ close(snapshots'[i]).res = SnapshotReadersNotClosed
                   /\ close(snapshots'[i]).self = snapshots'[i]
      ]_vars

\* C15 witness: a close has failed on a snapshot with no open reader, after
\* a close_reader that named no open reader
CloseReaderUnvalidatedWitness ==
    /\ last.op = "close"
    /\ last.res = SnapshotReadersNotClosed
    /\ hist[last.snap].strays > 0
    /\ \A j \in PointersOf(last.snap) : ~pointers[j].open
    /\ snapshots[last.snap].max_active_readers = 0 - 1

\* C16 as stated: the active-reader counter is the number of ids in the
\* active reader set.
CounterIsSetSize ==
    \A i \in SnapIds :
        snapshots[i].max_active_readers = Cardinality(snapshots[i].readers)

\* C17: a closed snapshot has an active-reader counter of 0, and no step
\* changes any field of a closed snapshot.
ClosedIsFrozen ==
    [][/\ \A i \in SnapIds :
             snapshots[i].closed
             => /\ snapshots[i].max_active_readers = 0
                /\ snapshots'[i] = snapshots[i]
       /\ \A i \in 1..Len(snapshots') :
             snapshots'[i].closed => snapshots'[i].max_active_readers = 0
      ]_vars

\* C17 witness: a new_reader has been rejected by a closed snapshot that had
\* issued a reader before
ClosedIsFrozenWitness ==
    /\ last.op = "new_reader"
    /\ last.res = SnapshotAlreadyClosed
    /\ snapshots[last.snap].closed
    /\ hist[last.snap].issued # <<>>

\* C18: on an open snapshot get, ts and active_readers change no field;
\* new_reader and close_reader change the reader set and move the counter
\* by exactly +1 and -1, leaving id, ts, root and closed; close changes at
\* most the closed flag.
NonWritingFrame ==
    [][\A i \in SnapIds :
          (last'.snap = i /\ ~snapshots[i].closed)
          => LET old == snapshots[i]
                 now == snapshots'[i]
             IN  /\ last'.op \in {"get", "ts", "active_readers"} => now = old
                 /\ last'.op = "new_reader"
                    => now = [old EXCEPT
                                !.readers = now.readers,
                                !.max_active_readers = @ + 1]
                 /\ last'.op = "close_reader"
                    => now = [old EXCEPT
                                !.readers = now.readers,
                                !.max_active_readers = @ - 1]
                 /\ last'.op = "close"
                    => now = [old EXCEPT !.closed = now.closed]
      ]_vars

\* C18 witness: a close_reader has succeeded at counter 0 on a snapshot that
\* holds writes of its own
NonWritingFrameWitness ==
    /\ last.op = "close_reader"
    /\ last.res.ok
    /\ snapshots[last.snap].max_active_readers = 0 - 1
    /\ hist[last.snap].commits # <<>>

\* The orders in which the callers' calls can be made one after the other
Orders ==
    {o \in [1..Cardinality(Threads) -> Threads] :
        \A a, b \in 1..Cardinality(Threads) : o[a] = o[b] => a = b}

\* The snapshot and the ids returned after the callers' calls are made, whole,
\* in the given order from snapshot self
RECURSIVE SeqRun(_, _, _)
SeqRun(self, order, rets) ==
    IF order = <<>> THEN [self |-> self, ret |-> rets]
    ELSE LET t == Head(order)
             r == IF conc.th[t].op = "new_reader" THEN new_reader(self)
                  ELSE close_reader(self, conc.th[t].arg)
         IN  SeqRun(r.self, Tail(order),
                    [rets EXCEPT ![t] = IF conc.th[t].op = "new_reader"
                                        THEN r.res.out[1] ELSE 0])

====
